---- MODULE Spec2Model ----
(***************************************************************************)
(* A model of the import-lcov extension (src/src/extension.ts).            *)
(*                                                                         *)
(* The extension runs on one JavaScript event loop: every action below is  *)
(* one run-to-completion segment of a handler, from one await to the next. *)
(* Promises of the host (readFile, parseLcov, findFiles, loadDemangle) are *)
(* settled by the environment.                                             *)
(***************************************************************************)
EXTENDS Integers, Sequences, FiniteSets, TLC

(***************************************************************************)
(* Bounds of the model.                                                    *)
(***************************************************************************)
MaxRefresh == 2
MaxProfileRuns == 1
MaxCalls == 2
MaxRunCalls == 1
MaxLoads == 2
MaxFns == 2
MaxBranches == 3
MaxPathLen == 4
MaxCount == 2
MaxLines == 2
MaxLineBranches == 2

(***************************************************************************)
(* Sequence helpers.                                                       *)
(***************************************************************************)
Range(s) == {s[i] : i \in 1..Len(s)}

SeqsUpTo(S, n) == UNION {[1..k -> S] : k \in 0..n}

IsPrefix(s, t) == Len(s) <= Len(t) /\ \A i \in 1..Len(s) : s[i] = t[i]

(***************************************************************************)
(* Strings the code inspects character by character are sequences of       *)
(* one-character strings.                                                  *)
(***************************************************************************)
\* String.prototype.startsWith
StartsWith(s, prefix) == IsPrefix(prefix, s)

\* String.prototype.substring(start): start is clamped to the length.
Substring(s, start) ==
  IF start >= Len(s) THEN <<>> ELSE SubSeq(s, start + 1, Len(s))

(***************************************************************************)
(* Path resolution, lines 60-77.                                           *)
(***************************************************************************)
RECURSIVE CollapseSlashes(_)
\* posix.normalize on a path without "." or ".." segments: runs of
\* separators become one separator.
CollapseSlashes(p) ==
  IF Len(p) < 2 THEN p
  ELSE IF p[1] = "/" /\ p[2] = "/" THEN CollapseSlashes(Tail(p))
  ELSE <<p[1]>> \o CollapseSlashes(Tail(p))

\* vscode.Uri.file(path)
UriFile(path) == [scheme |-> "file", path |-> path]

\* vscode.Uri.joinPath(uri, segment): posix.join of the uri's path and the
\* segment; an empty segment is ignored by join.
UriJoinPath(uri, segment) ==
  [uri EXCEPT !.path =
     IF segment = <<>> THEN CollapseSlashes(uri.path)
     ELSE CollapseSlashes(uri.path \o <<"/">> \o segment)]

\* A workspace folder's uri.fsPath.
FsPath(uri) == uri.path

\* The match on a full path segment: the root is followed by a separator.
StartsWithSegment(sectionPath, workspacePath) ==
  /\ StartsWith(sectionPath, workspacePath)
  /\ Len(sectionPath) > Len(workspacePath)
  /\ sectionPath[Len(workspacePath) + 1] = "/"

\* The test of line 67.
RootMatches(sectionPath, workspacePath) == StartsWith(sectionPath, workspacePath)

RECURSIVE ResolvePath(_, _)
\* The loop of lines 62-74 with the fallback of line 77: the first folder
\* whose fsPath the section path starts with gives the uri.
ResolvePath(workspaceFolders, sectionPath) ==
  IF workspaceFolders = <<>> THEN UriFile(sectionPath)
  ELSE LET workspacePath == FsPath(Head(workspaceFolders))
       IN  IF RootMatches(sectionPath, workspacePath)
           THEN UriJoinPath(Head(workspaceFolders),
                            Substring(sectionPath, Len(workspacePath) + 1))
           ELSE ResolvePath(Tail(workspaceFolders), sectionPath)

(***************************************************************************)
(* Branch groups, lines 124-150.  A bucket (the Record<string,             *)
(* BranchCoverage> of one line) is the sequence of its own properties in   *)
(* insertion order.                                                        *)
(***************************************************************************)
\* Names of properties every object literal inherits from Object.prototype.
ProtoKeys == {"constructor", "toString", "__proto__"}

\* Property names that are array indices, with their numeric value.
IndexKeys == {"0", "1", "2"}

KeyIndex(k) == CASE k = "0" -> 0 [] k = "1" -> 1 [] k = "2" -> 2 [] OTHER -> 3

HasOwn(bucket, k) == \E i \in 1..Len(bucket) : bucket[i].label = k

\* A variant of the position that keeps the line number as recorded.
PositionAsRecorded(line) == [line |-> line, character |-> 0]

\* new vscode.Position(line - 1, 0)
Position(line) == [line |-> line - 1, character |-> 0]

\* Lines 132-137 on an object that has no prototype: a missing own property
\* is always nullish.
MergeBranchOwnOnly(bucket, branch) ==
  IF HasOwn(bucket, branch.branch)
  THEN [i \in 1..Len(bucket) |->
          IF bucket[i].label = branch.branch
          THEN [bucket[i] EXCEPT !.executed = @ + branch.hit]
          ELSE bucket[i]]
  ELSE Append(bucket, [executed |-> 0 + branch.hit,
                       location |-> Position(branch.line),
                       label |-> branch.branch])

\* Lines 132-137: `branches[k] ??= new BranchCoverage(0, ...)` assigns only
\* when branches[k] is nullish, and the lookup of a key that is no own
\* property goes to Object.prototype; `executed += hit` then writes to the
\* object found.
MergeBranch(bucket, branch) ==
  IF ~HasOwn(bucket, branch.branch) /\ branch.branch \in ProtoKeys
  THEN bucket
  ELSE MergeBranchOwnOnly(bucket, branch)

RECURSIVE BranchesByLine(_, _)
\* The loop of lines 129-140 over the first n branch details: the Map from
\* line to bucket, as a function of the line (no entry: the empty bucket,
\* as `branchesByLine.get(line) ?? {}` reads it).
BranchesByLine(details, n) ==
  IF n = 0 THEN [line \in {} |-> <<>>]
  ELSE LET before == BranchesByLine(details, n - 1)
           branch == details[n]
           bucket == IF branch.line \in DOMAIN before
                     THEN before[branch.line] ELSE <<>>
       IN  [line \in DOMAIN before \cup {branch.line} |->
              IF line = branch.line THEN MergeBranch(bucket, branch)
              ELSE before[line]]

RECURSIVE SortByIndex(_)
\* Entries with array-index labels in ascending numeric order.
SortByIndex(entries) ==
  IF entries = {} THEN <<>>
  ELSE LET least == CHOOSE e \in entries :
                      \A o \in entries : KeyIndex(e.label) <= KeyIndex(o.label)
       IN  <<least>> \o SortByIndex(entries \ {least})

\* Object.values(bucket): array-index keys in ascending order, then the
\* other keys in insertion order.
ObjectValues(bucket) ==
  SortByIndex({bucket[i] : i \in {j \in 1..Len(bucket) : bucket[j].label \in IndexKeys}})
    \o SelectSeq(bucket, LAMBDA e : e.label \notin IndexKeys)

\* Lines 142-150: one StatementCoverage per line detail.
StatementDetails(section) ==
  LET byLine == BranchesByLine(section.branches.details,
                               Len(section.branches.details))
  IN  [i \in 1..Len(section.lines.details) |->
         LET line == section.lines.details[i]
         IN  [kind |-> "statement",
              executed |-> line.hit,
              location |-> Position(line.line),
              branches |-> IF line.line \in DOMAIN byLine
                           THEN ObjectValues(byLine[line.line]) ELSE <<>>]]

(***************************************************************************)
(* Function names, lines 152-177.                                          *)
(***************************************************************************)
\* A variant of the pattern: any number of leading underscores.
IsMangledAnyUnderscores(name) ==
  \E k \in 1..Len(name) :
    /\ k < Len(name)
    /\ \A i \in 1..k : name[i] = "_"
    /\ name[k + 1] = "Z"

\* /^_{1,3}Z/.test(name), line 159.
IsMangled(name) ==
  \E k \in 1..3 :
    /\ k < Len(name)
    /\ \A i \in 1..k : name[i] = "_"
    /\ name[k + 1] = "Z"

\* A variant of the test: no name is skipped.
SkipsNoName(name) == FALSE

\* fn.name.length === 0, line 153.
SkipsName(name) == Len(name) = 0

\* The demangler is a function of the host: its result for a name is a
\* string no section holds, and it throws on the names of DemanglerThrows.
DemangledName(name) == <<"~">> \o name

DemanglerThrows == {<<"_", "Z", "!">>}

\* new vscode.DeclarationCoverage(name, fn.hit, Position(fn.line - 1, 0))
DeclarationCoverage(name, fn) ==
  [kind |-> "declaration", name |-> name, executed |-> fn.hit,
   location |-> Position(fn.line)]

(***************************************************************************)
(* The world of the model: report files, batch runs, profiles, calls.      *)
(***************************************************************************)
Files == {1, 2}

\* Refresh r creates token r, batch r and profile r; a run started through
\* the Coverage profile takes a batch and a host token after those.
Refreshes == 1..MaxRefresh

Batches == 1..(MaxRefresh + MaxProfileRuns)

ProfileBatches == {b \in Batches : b > MaxRefresh}

Profiles == Refreshes

Calls == 1..MaxCalls

VARIABLES
  workspaceFolders,   \* vscode.workspace.workspaceFolders, a sequence of uris
  fileContent,        \* per report file, the sections parseLcov returns
  cancelled,          \* the cancellation tokens that are cancelled
  currentRefreshCts,  \* line 22: the token source of the latest refresh
  refreshPc,          \* per refreshTests invocation: idle, findFiles, done
  items,              \* controller.items, the report files found
  batchState,         \* per collectRunData invocation: none, running, ended, rejected
  task,               \* per batch and file: the position of the per-file task
  coverage,           \* per run: the FileCoverage objects passed to run.addCoverage
  testRunData,        \* line 24: FileCoverage -> section
  runProfile,         \* per run: request.profile, 0 when undefined
  createdInPass,      \* per FileCoverage: the passes started when it was made
  coverageProfile,    \* line 10: the current profile, 0 when undefined
  disposed,           \* the profiles that were disposed
  demangle,           \* per profile, the closure variable of line 111
  loads,              \* per profile, the promises loadDemangle returned
  call,               \* per loadDetailedCoverage invocation, its frame
  searched,           \* per refreshTests invocation, the globs it passed to findFiles
  configuration,      \* line 23: configuration.lcovFiles, a sequence of globs
  watchers,           \* the globs of the watchers whose onDidChange listener is live
  active              \* FALSE once the extension is deactivated

vars == <<workspaceFolders, fileContent, cancelled, currentRefreshCts, refreshPc,
          items, batchState, task, coverage, testRunData, runProfile,
          createdInPass, coverageProfile,
          disposed, demangle, loads, call, searched, configuration, watchers,
          active>>

hostVars == <<workspaceFolders, fileContent>>

refreshVars == <<currentRefreshCts, refreshPc, items, searched>>

extensionVars == <<configuration, watchers, active>>

batchVars == <<batchState, task, coverage, testRunData, runProfile, createdInPass>>

\* The run passes (collectRunData invocations) started so far.
PassCount == Cardinality({b \in DOMAIN batchState : batchState[b] # "none"})

profileVars == <<coverageProfile, disposed>>

detailVars == <<demangle, loads, call>>

(***************************************************************************)
(* Section data.                                                           *)
(***************************************************************************)
Summary(instrumented, hit, details) ==
  [instrumented |-> instrumented, hit |-> hit, details |-> details]

MkSection(path, lines, branches, functions) ==
  [path |-> path, lines |-> lines, branches |-> branches, functions |-> functions]

LineDetail(line, hit) == [line |-> line, hit |-> hit]

BranchDetail(line, branch, hit) == [line |-> line, branch |-> branch, hit |-> hit]

FunctionDetail(name, line, hit) == [name |-> name, line |-> line, hit |-> hit]

\* The report files of the workspace: file 1 holds two sections, file 2 one.
SectionA ==
  MkSection(<<"/", "a", "/", "x">>,
            Summary(2, 1, <<LineDetail(1, 3)>>),
            Summary(2, 1, <<BranchDetail(1, "0", 1), BranchDetail(1, "0", 2)>>),
            Summary(1, 1, <<FunctionDetail(<<"_", "Z", "f">>, 1, 1)>>))

SectionB ==
  MkSection(<<"/", "o", "/", "x">>,
            Summary(1, 0, <<LineDetail(2, 0)>>),
            Summary(0, 0, <<>>),
            Summary(2, 1, <<FunctionDetail(<<>>, 2, 0), FunctionDetail(<<"m">>, 2, 1)>>))

SectionC ==
  MkSection(<<"/", "b", "/", "y">>,
            Summary(0, 0, <<>>),
            Summary(0, 0, <<>>),
            Summary(1, 0, <<FunctionDetail(<<"_", "Z", "!">>, 1, 0)>>))

DefaultContent == (1 :> <<SectionA, SectionB>>) @@ (2 :> <<SectionC>>)

DefaultFolders == <<UriFile(<<"/", "a">>), UriFile(<<"/", "b">>)>>

\* The setting import-lcov.lcovFiles the workspace starts with.
DefaultConfiguration == <<"a">>

(***************************************************************************)
(* collectRunData, lines 26-98.                                            *)
(***************************************************************************)
IsCancellationRequested(token) == token \in cancelled

\* The token of batch b: refresh r passes the token of the source it
\* created, the host passes a token of its own to a profile run.
TokenOf(b) == b

\* The entries of a detail list that were hit.
HitDetails(details) == SelectSeq(details, LAMBDA d : d.hit > 0)

\* A variant of lines 76-90 that counts the detail entries instead of
\* copying the summary fields of the section.
FileCoverageFromDetails(b, f, i, section) ==
  [id |-> <<b, f, i>>,
   uri |-> ResolvePath(workspaceFolders, section.path),
   statementCoverage |-> [covered |-> Len(HitDetails(section.lines.details)),
                          total |-> Len(section.lines.details)],
   branchCoverage |-> [covered |-> Len(HitDetails(section.branches.details)),
                       total |-> Len(section.branches.details)],
   declarationCoverage |-> [covered |-> Len(HitDetails(section.functions.details)),
                            total |-> Len(section.functions.details)]]

\* Lines 76-90: the FileCoverage of the i-th section of file f in run b.
FileCoverage(b, f, i, section) ==
  [id |-> <<b, f, i>>,
   uri |-> ResolvePath(workspaceFolders, section.path),
   statementCoverage |-> [covered |-> section.lines.hit,
                          total |-> section.lines.instrumented],
   branchCoverage |-> [covered |-> section.branches.hit,
                       total |-> section.branches.instrumented],
   declarationCoverage |-> [covered |-> section.functions.hit,
                            total |-> section.functions.instrumented]]

\* A variant of the loop of lines 59-94 that goes through the sections from
\* the last to the first.
FileCoveragesBackwards(b, f, sections) ==
  [i \in 1..Len(sections) |->
     FileCoverage(b, f, Len(sections) + 1 - i, sections[Len(sections) + 1 - i])]

\* The FileCoverage objects the loop of lines 59-94 makes for the sections.
FileCoverages(b, f, sections) ==
  [i \in 1..Len(sections) |-> FileCoverage(b, f, i, sections[i])]

\* A variant of the check of line 55 that never sees the cancellation.
SeesNoCancellation(token) == FALSE

\* The check of line 55, after parseLcov.
CancelledAfterParse(token) == IsCancellationRequested(token)

\* `await Promise.all(...)` then run.end(), lines 45-97, once the tasks of
\* run b stand as in tasks: the first rejected task rejects collectRunData
\* (run.end is not reached), and when all are fulfilled the run is ended.
Joined(state, tasks) ==
  IF state # "running" THEN state
  ELSE IF \E f \in Files : tasks[f] = "failed" THEN "rejected"
  ELSE IF \A f \in Files : tasks[f] \in {"none", "done", "cancelled"} THEN "ended"
  ELSE "running"

\* A variant of collectRunData that empties the side table when a run pass
\* starts.
CollectRunDataClearing(b, profile, include, exclude, controllerItems) ==
  LET chosen == (IF include = {} THEN controllerItems ELSE include) \ exclude
      tasks == [f \in Files |-> IF f \in chosen THEN "read" ELSE "none"]
  IN  /\ batchState[b] = "none"
      /\ task' = [task EXCEPT ![b] = tasks]
      /\ batchState' = [batchState EXCEPT ![b] = Joined("running", tasks)]
      /\ runProfile' = [runProfile EXCEPT ![b] = profile]
      /\ testRunData' = [fc \in {} |-> <<>>]
      /\ UNCHANGED <<coverage, createdInPass>>

\* Lines 27-47: createTestRun, the items of the request, and every per-file
\* task started up to its readFile.  The side table is left as it is.
CollectRunData(b, profile, include, exclude, controllerItems) ==
  LET chosen == (IF include = {} THEN controllerItems ELSE include) \ exclude
      tasks == [f \in Files |-> IF f \in chosen THEN "read" ELSE "none"]
  IN  /\ batchState[b] = "none"
      /\ task' = [task EXCEPT ![b] = tasks]
      /\ batchState' = [batchState EXCEPT ![b] = Joined("running", tasks)]
      /\ runProfile' = [runProfile EXCEPT ![b] = profile]
      /\ UNCHANGED <<coverage, testRunData, createdInPass>>

\* Lines 47-53: readFile is fulfilled; the task returns when the token is
\* cancelled and calls parseLcov otherwise.
ReadDone(b, f) ==
  /\ task[b][f] = "read"
  /\ LET tasks == [task[b] EXCEPT ![f] =
                     IF IsCancellationRequested(TokenOf(b)) THEN "cancelled"
                     ELSE "parse"]
     IN  /\ task' = [task EXCEPT ![b] = tasks]
         /\ batchState' = [batchState EXCEPT ![b] = Joined(@, tasks)]
  /\ UNCHANGED <<coverage, testRunData, runProfile, createdInPass>>
  /\ UNCHANGED <<hostVars, extensionVars, cancelled, refreshVars, profileVars, detailVars>>

\* Line 47 or 53: readFile or parseLcov is rejected, and so is the task.
TaskFail(b, f) ==
  /\ task[b][f] \in {"read", "parse"}
  /\ LET tasks == [task[b] EXCEPT ![f] = "failed"]
     IN  /\ task' = [task EXCEPT ![b] = tasks]
         /\ batchState' = [batchState EXCEPT ![b] = Joined(@, tasks)]
  /\ UNCHANGED <<coverage, testRunData, runProfile, createdInPass>>
  /\ UNCHANGED <<hostVars, extensionVars, cancelled, refreshVars, profileVars, detailVars>>

\* Lines 53-94: parseLcov is fulfilled; the task returns when the token is
\* cancelled, and otherwise records and publishes every section.
ParseDone(b, f) ==
  /\ task[b][f] = "parse"
  /\ LET stop == CancelledAfterParse(TokenOf(b))
         made == FileCoverages(b, f, fileContent[f])
         tasks == [task[b] EXCEPT ![f] = IF stop THEN "cancelled" ELSE "done"]
     IN  /\ task' = [task EXCEPT ![b] = tasks]
         /\ batchState' = [batchState EXCEPT ![b] = Joined(@, tasks)]
         /\ coverage' = [coverage EXCEPT ![b] = IF stop THEN @ ELSE @ \o made]
         /\ testRunData' =
              IF stop THEN testRunData
              ELSE [fc \in DOMAIN testRunData \cup Range(made) |->
                      IF fc \in Range(made)
                      THEN fileContent[f][fc.id[3]]
                      ELSE testRunData[fc]]
         /\ createdInPass' =
              IF stop THEN createdInPass
              ELSE [fc \in DOMAIN createdInPass \cup Range(made) |->
                      IF fc \in Range(made) THEN PassCount
                      ELSE createdInPass[fc]]
  /\ UNCHANGED runProfile
  /\ UNCHANGED <<hostVars, extensionVars, cancelled, refreshVars, profileVars, detailVars>>

(***************************************************************************)
(* createCoverageProfile, lines 100-181, and loadDetailedCoverage.         *)
(***************************************************************************)
Undefined == [kind |-> "undefined", load |-> 0]

IdleCall ==
  [pc |-> "idle", profile |-> 0, fc |-> <<>>, section |-> <<>>, details |-> <<>>,
   i |-> 0, awaiting |-> 0, joined |-> "none", loaded |-> 0, used |-> {},
   passed |-> <<>>, error |-> "none", stale |-> FALSE]

\* Lines 101-114: the previous profile is disposed, and the new profile p
\* gets a closure of its own with demangle undefined.
CreateCoverageProfile(p) ==
  /\ disposed' = IF coverageProfile # 0 THEN disposed \cup {coverageProfile}
                 ELSE disposed
  /\ coverageProfile' = p
  /\ demangle' = [demangle EXCEPT ![p] = Undefined]

\* A variant of line 161 that caches nothing while the load is pending.
CachedNothingWhilePending(load) == Undefined

\* Line 161: `demangle = loadDemangle(context)` caches the promise.
CachedWhilePending(load) == [kind |-> "promise", load |-> load]

\* A variant of line 167 that keeps the records made so far and returns
\* them when the demangler throws.
DemanglerThrewReturning(frame) == [frame EXCEPT !.pc = "returned", !.error = "demangle"]

\* Line 167 outside any try: what the demangler throws rejects the call,
\* and the records made so far are dropped with its frame.
DemanglerThrew(frame) == [frame EXCEPT !.pc = "failed", !.error = "demangle"]

\* A variant of lines 119-121 that throws when the side table has no entry.
NoSectionThrows(frame) == [frame EXCEPT !.pc = "failed", !.error = "section"]

\* Lines 119-121: `return []` when the side table has no entry.
NoSection(frame) == [frame EXCEPT !.pc = "returned"]

RECURSIVE FunctionLoop(_, _, _)
RECURSIVE CallDemangle(_, _, _)
\* The loop of lines 152-177 from function detail frame.i on, run until it
\* returns, throws or awaits: the frame, the closure variable and the
\* promises of the profile as it leaves them.
FunctionLoop(frame, dm, ld) ==
  LET fns == frame.section.functions.details
  IN  IF frame.i > Len(fns)
      THEN [call |-> [frame EXCEPT !.pc = "returned"], demangle |-> dm, loads |-> ld]
      ELSE LET fn == fns[frame.i]
           IN  IF SkipsName(fn.name)
               THEN FunctionLoop([frame EXCEPT !.i = @ + 1], dm, ld)
               ELSE IF ~IsMangled(fn.name)
               THEN FunctionLoop(
                      [frame EXCEPT !.i = @ + 1,
                                    !.details = Append(@, DeclarationCoverage(fn.name, fn))],
                      dm, ld)
               ELSE IF dm.kind = "undefined"
               THEN [call |-> [frame EXCEPT !.pc = "await",
                                            !.awaiting = Len(ld) + 1,
                                            !.joined = "pending",
                                            !.loaded = @ + 1],
                     demangle |-> CachedWhilePending(Len(ld) + 1),
                     loads |-> Append(ld, "pending")]
               ELSE IF dm.kind = "promise"
               THEN [call |-> [frame EXCEPT !.pc = "await",
                                            !.awaiting = dm.load,
                                            !.joined = ld[dm.load]],
                     demangle |-> dm, loads |-> ld]
               ELSE CallDemangle(frame, dm, ld)

\* Lines 167-176 for function detail frame.i, with demangle a function: the
\* call throws when the demangler does, and goes on with the loop otherwise.
CallDemangle(frame, dm, ld) ==
  LET fn == frame.section.functions.details[frame.i]
      called == [frame EXCEPT !.passed = Append(@, fn.name),
                              !.used = @ \cup {dm.load}]
  IN  IF fn.name \in DemanglerThrows
      THEN [call |-> DemanglerThrew(called), demangle |-> dm, loads |-> ld]
      ELSE FunctionLoop(
             [called EXCEPT !.i = @ + 1,
                            !.details = Append(@, DeclarationCoverage(
                                                    DemangledName(fn.name), fn))],
             dm, ld)

\* Lines 116-180 up to the first await: the host calls loadDetailedCoverage
\* of profile p with a FileCoverage.
LoadDetailedCoverage(c, p, fileCoverage) ==
  /\ call[c].pc = "idle"
  /\ \A d \in Calls : d < c => call[d].pc # "idle"
  /\ LET frame == [IdleCall EXCEPT !.profile = p, !.fc = fileCoverage,
                                   !.stale = /\ fileCoverage \in DOMAIN createdInPass
                                              /\ PassCount > createdInPass[fileCoverage]]
         out == IF fileCoverage \notin DOMAIN testRunData
                THEN [call |-> NoSection(frame),
                      demangle |-> demangle[p], loads |-> loads[p]]
                ELSE FunctionLoop(
                       [frame EXCEPT !.section = testRunData[fileCoverage],
                                     !.details = StatementDetails(testRunData[fileCoverage]),
                                     !.i = 1],
                       demangle[p], loads[p])
     IN  /\ Len(out.loads) <= MaxLoads
         /\ call' = [call EXCEPT ![c] = out.call]
         /\ demangle' = [demangle EXCEPT ![p] = out.demangle]
         /\ loads' = [loads EXCEPT ![p] = out.loads]
  /\ UNCHANGED <<hostVars, extensionVars, cancelled, refreshVars, batchVars, profileVars>>

\* Lines 162 and 164: the awaited promise is settled and the call resumes.
\* A rejection is thrown out of the call; a function is stored in demangle
\* and called on the name, and the loop goes on.
Resume(c) ==
  /\ call[c].pc = "await"
  /\ LET p == call[c].profile
         state == loads[p][call[c].awaiting]
         out == IF state = "rejected"
                THEN [call |-> [call[c] EXCEPT !.pc = "failed", !.error = "load"],
                      demangle |-> demangle[p], loads |-> loads[p]]
                ELSE CallDemangle(call[c],
                                  [kind |-> "function", load |-> call[c].awaiting],
                                  loads[p])
     IN  /\ state # "pending"
         /\ Len(out.loads) <= MaxLoads
         /\ call' = [call EXCEPT ![c] = out.call]
         /\ demangle' = [demangle EXCEPT ![p] = out.demangle]
         /\ loads' = [loads EXCEPT ![p] = out.loads]
  /\ UNCHANGED <<hostVars, extensionVars, cancelled, refreshVars, batchVars, profileVars>>

\* The promise of a loadDemangle call is fulfilled with the demangler or
\* rejected.
LoadSettles(p, k, state) ==
  /\ k \in 1..Len(loads[p])
  /\ loads[p][k] = "pending"
  /\ loads' = [loads EXCEPT ![p][k] = state]
  /\ UNCHANGED <<hostVars, extensionVars, cancelled, refreshVars, batchVars, profileVars,
                 demangle, call>>

(***************************************************************************)
(* refreshTests, lines 183-212, and the runs the host starts.              *)
(***************************************************************************)
\* A variant of line 185 that leaves the previous token as it is.
KeepPrevious(cts) == cancelled

\* Line 185: currentRefreshCts.cancel().
CancelPrevious(cts) == cancelled \cup {cts}

\* Lines 184-198: the previous token source is cancelled, a new one is
\* created and findFiles is awaited for every glob of the configuration as
\* the caller left it.
RefreshTests(r) ==
  /\ refreshPc[r] = "idle"
  /\ \A q \in Refreshes : q < r => refreshPc[q] # "idle"
  /\ cancelled' = CancelPrevious(currentRefreshCts)
  /\ currentRefreshCts' = r
  /\ refreshPc' = [refreshPc EXCEPT ![r] = "findFiles"]
  /\ searched' = [searched EXCEPT ![r] = configuration']
  /\ UNCHANGED <<hostVars, items, batchVars, profileVars, detailVars>>

\* refreshTests called with the configuration as it is: by
\* refreshConfiguration once it has made its watchers (line 248), or by the
\* host through the refresh handler of the controller (line 214).
RefreshHandler(r) ==
  /\ active
  /\ UNCHANGED extensionVars
  /\ RefreshTests(r)

\* Lines 199-211: findFiles is fulfilled with the files found (none when
\* there was no glob to search); the items are replaced, collectRunData is started (not awaited) with the token of
\* this refresh, and the profile is created anew.
FilesFound(r, found) ==
  /\ refreshPc[r] = "findFiles"
  /\ searched[r] = <<>> => found = {}
  /\ refreshPc' = [refreshPc EXCEPT ![r] = "done"]
  /\ items' = found
  /\ CollectRunData(r, 0, found, {}, found)
  /\ CreateCoverageProfile(r)
  /\ UNCHANGED <<hostVars, extensionVars, cancelled, currentRefreshCts, searched,
                 loads, call>>

\* The host runs the Coverage profile: collectRunData is the run handler of
\* line 108, called with the host's request and token.
RunProfile(b, include) ==
  /\ b \in ProfileBatches
  /\ active
  /\ coverageProfile # 0
  /\ \A a \in ProfileBatches : a < b => batchState[a] # "none"
  /\ CollectRunData(b, coverageProfile, include, {}, items)
  /\ UNCHANGED <<hostVars, extensionVars, cancelled, refreshVars, profileVars, detailVars>>

\* The host cancels the token it gave to a profile run.
HostCancels(b) ==
  /\ b \in ProfileBatches
  /\ batchState[b] = "running"
  /\ TokenOf(b) \notin cancelled
  /\ cancelled' = cancelled \cup {TokenOf(b)}
  /\ UNCHANGED <<hostVars, extensionVars, refreshVars, batchVars, profileVars, detailVars>>

(***************************************************************************)
(* refreshConfiguration, lines 218-249, the watchers and deactivate.       *)
(***************************************************************************)
\* The values the setting import-lcov.lcovFiles takes: unset, one glob as
\* a string, or a list of globs.
Settings ==
  { [kind |-> "unset", value |-> <<>>],
    [kind |-> "string", value |-> <<"a">>],
    [kind |-> "list", value |-> <<"a">>],
    [kind |-> "list", value |-> <<"b">>],
    [kind |-> "list", value |-> <<"a", "b">>] }

\* Lines 220-226: an unset setting is the empty list, a string is the list
\* of that one glob.
LcovFilesOf(setting) == setting.value

\* Lines 218-249: nothing happens when the setting is the configuration in
\* use; otherwise it becomes the configuration, one watcher is made per
\* glob with its onDidChange listener, and refreshTests is called.  The
\* watchers made before stay as they are.
RefreshConfiguration(setting, r) ==
  /\ active
  /\ LET lcovFiles == LcovFilesOf(setting)
     IN  IF lcovFiles = configuration
         THEN r = 1 /\ UNCHANGED vars
         ELSE /\ configuration' = lcovFiles
              /\ watchers' = watchers \o lcovFiles
              /\ UNCHANGED active
              /\ RefreshTests(r)

\* Line 245: a report file matching the glob of a watcher changes, and the
\* listener of the watcher calls refreshTests.
WatcherFires(k, r) ==
  /\ active
  /\ k \in 1..Len(watchers)
  /\ UNCHANGED extensionVars
  /\ RefreshTests(r)

\* Lines 262-268 and the host disposing context.subscriptions (lines 20,
\* 245, 253): the current profile is disposed, and so are the controller
\* and the listeners.  coverageProfile keeps its value, and a refreshTests
\* call that waits for findFiles is left waiting.
Deactivate ==
  /\ active
  /\ active' = FALSE
  /\ watchers' = <<>>
  /\ disposed' = IF coverageProfile # 0 THEN disposed \cup {coverageProfile}
                 ELSE disposed
  /\ UNCHANGED <<hostVars, cancelled, refreshVars, batchVars, coverageProfile,
                 detailVars, configuration>>

(***************************************************************************)
(* The extension in activate, after refreshConfiguration read the setting  *)
(* and made its watchers (line 246), and its steps from there.             *)
(***************************************************************************)
Init ==
  /\ workspaceFolders = DefaultFolders
  /\ fileContent = DefaultContent
  /\ cancelled = {}
  /\ currentRefreshCts = 0
  /\ refreshPc = [r \in Refreshes |-> "idle"]
  /\ items = {}
  /\ batchState = [b \in Batches |-> "none"]
  /\ task = [b \in Batches |-> [f \in Files |-> "none"]]
  /\ coverage = [b \in Batches |-> <<>>]
  /\ testRunData = [fc \in {} |-> <<>>]
  /\ runProfile = [b \in Batches |-> 0]
  /\ createdInPass = [fc \in {} |-> 0]
  /\ coverageProfile = 0
  /\ disposed = {}
  /\ demangle = [p \in Profiles |-> Undefined]
  /\ loads = [p \in Profiles |-> <<>>]
  /\ call = [c \in Calls |-> IdleCall]
  /\ searched = [r \in Refreshes |-> <<>>]
  /\ configuration = DefaultConfiguration
  /\ watchers = DefaultConfiguration
  /\ active = TRUE

\* The host asks for the details of a FileCoverage published to a run, and
\* asks the profile the run was requested with (request.profile): a run
\* started by refreshTests has none (line 210).
DetailRequests ==
  UNION {{<<runProfile[b], fc>> : fc \in Range(coverage[b])} :
           b \in {a \in Batches : runProfile[a] # 0}}

\* The batch runs alone: refreshes, profile runs and their per-file tasks.
NextBatch ==
  \/ \E r \in Refreshes : RefreshHandler(r)
  \/ \E r \in Refreshes, found \in SUBSET Files : FilesFound(r, found)
  \/ \E b \in Batches, include \in SUBSET items : RunProfile(b, include)
  \/ \E b \in Batches : HostCancels(b)
  \/ \E b \in Batches, f \in Files : ReadDone(b, f)
  \/ \E b \in Batches, f \in Files : TaskFail(b, f)
  \/ \E b \in Batches, f \in Files : ParseDone(b, f)

Spec == Init /\ [][NextBatch]_vars

\* Every promise the extension waits for is settled in the end: findFiles
\* of a refresh, and readFile and parseLcov of a per-file task.
Settling ==
  /\ \A r \in Refreshes : WF_vars(\E found \in SUBSET Files : FilesFound(r, found))
  /\ \A b \in Batches, f \in Files :
       WF_vars(ReadDone(b, f) \/ ParseDone(b, f) \/ TaskFail(b, f))

SpecSettling == Init /\ [][NextBatch]_vars /\ Settling

\* Run passes that meet no failure and no cancellation by the host, with
\* the detail requests of the host between their steps.
NextPasses ==
  \/ \E r \in Refreshes : RefreshHandler(r)
  \/ \E r \in Refreshes, found \in SUBSET Files : FilesFound(r, found)
  \/ \E b \in Batches, include \in SUBSET items : RunProfile(b, include)
  \/ \E b \in Batches, f \in Files : ReadDone(b, f)
  \/ \E b \in Batches, f \in Files : ParseDone(b, f)
  \/ \E c \in 1..MaxRunCalls, req \in DetailRequests :
       LoadDetailedCoverage(c, req[1], req[2])
  \/ \E c \in 1..MaxRunCalls : Resume(c)
  \/ \E p \in Profiles, k \in 1..MaxLoads, state \in {"resolved", "rejected"} :
       LoadSettles(p, k, state)

SpecPasses == Init /\ [][NextPasses]_vars

(***************************************************************************)
(* Detail requests on the sections of one report.  The state is the one    *)
(* after refresh 1 found file 1, its own run failed on the read, and a     *)
(* Coverage run of profile 1 published the sections of file 1: a section   *)
(* drawn from DetailSections and SectionA.                                 *)
(***************************************************************************)
FnNames ==
  { <<>>, <<"m">>, <<"Z">>, <<"_", "m">>, <<"_", "Z">>, <<"_", "Z", "!">>,
    <<"_", "_", "Z">>, <<"_", "_", "_", "Z", "m">>, <<"_", "_", "_", "_", "Z">>,
    <<"m", "_", "Z">> }

FnDetails == {FunctionDetail(name, 5, 1) : name \in FnNames}

BranchIds == {"0", "1", "constructor"}

BranchDetails ==
  {BranchDetail(line, id, hit) : line \in {1, 2}, id \in BranchIds, hit \in 0..2}

DetailLines == <<LineDetail(1, 3), LineDetail(2, 0)>>

DetailPath == <<"/", "a", "/", "z">>

\* Sections whose function details are drawn.
DetailSections ==
  {MkSection(DetailPath, Summary(2, 1, DetailLines), Summary(0, 0, <<>>),
             Summary(Len(fns), Len(fns), fns)) : fns \in SeqsUpTo(FnDetails, MaxFns)}

\* Sections whose branch details are drawn.
BranchSections ==
  {MkSection(DetailPath, Summary(2, 1, DetailLines),
             Summary(Len(brs), Len(brs), brs), Summary(0, 0, <<>>)) :
     brs \in SeqsUpTo(BranchDetails, MaxBranches)}

\* The state after the Coverage run (the first batch after the refreshes')
\* published the sections of file 1.
AfterCoverageRun(folders, content) ==
  LET b == MaxRefresh + 1
      made == FileCoverages(b, 1, content[1])
  IN  /\ workspaceFolders = folders
      /\ fileContent = content
      /\ cancelled = {0}
      /\ currentRefreshCts = 1
      /\ refreshPc = [r \in Refreshes |-> IF r = 1 THEN "done" ELSE "idle"]
      /\ items = {1}
      /\ batchState = [a \in Batches |->
                         IF a = 1 THEN "rejected" ELSE IF a = b THEN "ended" ELSE "none"]
      /\ task = [a \in Batches |-> [f \in Files |->
                   IF f # 1 THEN "none"
                   ELSE IF a = 1 THEN "failed" ELSE IF a = b THEN "done" ELSE "none"]]
      /\ coverage = [a \in Batches |-> IF a = b THEN made ELSE <<>>]
      /\ testRunData = [fc \in Range(made) |-> content[1][fc.id[3]]]
      /\ runProfile = [a \in Batches |-> IF a = b THEN 1 ELSE 0]
      /\ createdInPass = [fc \in Range(made) |-> 2]
      /\ coverageProfile = 1
      /\ disposed = {}
      /\ demangle = [p \in Profiles |-> Undefined]
      /\ loads = [p \in Profiles |-> <<>>]
      /\ call = [c \in Calls |-> IdleCall]
      /\ searched = [r \in Refreshes |-> IF r = 1 THEN DefaultConfiguration ELSE <<>>]
      /\ configuration = DefaultConfiguration
      /\ watchers = DefaultConfiguration
      /\ active = TRUE

InitDetails ==
  \E section \in DetailSections :
    AfterCoverageRun(DefaultFolders, (1 :> <<section, SectionA>>) @@ (2 :> <<>>))

NextDetails ==
  \/ \E c \in Calls, req \in DetailRequests : LoadDetailedCoverage(c, req[1], req[2])
  \/ \E c \in Calls : Resume(c)
  \/ \E p \in Profiles, k \in 1..MaxLoads, state \in {"resolved", "rejected"} :
       LoadSettles(p, k, state)

SpecDetails == InitDetails /\ [][NextDetails]_vars

\* Detail requests on one section whose branch details are drawn: it has no
\* function details, and no request awaits.
InitBranches ==
  \E section \in BranchSections :
    AfterCoverageRun(DefaultFolders, (1 :> <<section>>) @@ (2 :> <<>>))

NextBranches ==
  \E c \in Calls, req \in DetailRequests : LoadDetailedCoverage(c, req[1], req[2])

SpecBranches == InitBranches /\ [][NextBranches]_vars

(***************************************************************************)
(* Path resolution on the section paths and workspace folders of           *)
(* ResolveInputs.  The state is the one after refresh 1 found file 1 and   *)
(* started its run: the task of file 1 waits for readFile.                 *)
(***************************************************************************)
PathChars == {"/", "a", "b"}

\* Absolute paths of at most MaxPathLen characters.
SectionPaths == {p \in SeqsUpTo(PathChars, MaxPathLen) : p # <<>> /\ p[1] = "/"}

FolderLists ==
  { <<>>,
    <<UriFile(<<"/", "a">>)>>,
    <<UriFile(<<"/", "a">>), UriFile(<<"/", "b">>)>>,
    <<UriFile(<<"/", "b">>), UriFile(<<"/", "b", "/", "a">>)>>,
    <<UriFile(<<"/", "a", "/", "b">>), UriFile(<<"/", "a">>)>> }

PathSection(path) ==
  MkSection(path, Summary(1, 1, <<LineDetail(1, 1)>>), Summary(0, 0, <<>>),
            Summary(0, 0, <<>>))

InitResolve ==
  \E folders \in FolderLists, path \in SectionPaths :
    /\ workspaceFolders = folders
    /\ fileContent = (1 :> <<PathSection(path)>>) @@ (2 :> <<>>)
    /\ cancelled = {0}
    /\ currentRefreshCts = 1
    /\ refreshPc = [r \in Refreshes |-> IF r = 1 THEN "done" ELSE "idle"]
    /\ items = {1}
    /\ batchState = [b \in Batches |-> IF b = 1 THEN "running" ELSE "none"]
    /\ task = [b \in Batches |-> [f \in Files |->
                 IF b = 1 /\ f = 1 THEN "read" ELSE "none"]]
    /\ coverage = [b \in Batches |-> <<>>]
    /\ testRunData = [fc \in {} |-> <<>>]
    /\ runProfile = [b \in Batches |-> 0]
    /\ createdInPass = [fc \in {} |-> 0]
    /\ coverageProfile = 1
    /\ disposed = {}
    /\ demangle = [p \in Profiles |-> Undefined]
    /\ loads = [p \in Profiles |-> <<>>]
    /\ call = [c \in Calls |-> IdleCall]
    /\ searched = [r \in Refreshes |-> IF r = 1 THEN DefaultConfiguration ELSE <<>>]
    /\ configuration = DefaultConfiguration
    /\ watchers = DefaultConfiguration
    /\ active = TRUE

NextResolve ==
  \/ \E b \in Batches, f \in Files : ReadDone(b, f)
  \/ \E b \in Batches, f \in Files : ParseDone(b, f)

SpecResolve == InitResolve /\ [][NextResolve]_vars

(***************************************************************************)
(* Summaries of sections whose summary counts are drawn.  The state is the *)
(* one after refresh 1 found both report files and started its run: both   *)
(* per-file tasks wait for readFile.                                       *)
(***************************************************************************)
\* The instrumented/hit pairs of a summary: 0 <= hit <= instrumented.
CountPairs == {pair \in (0..MaxCount) \X (0..MaxCount) : pair[2] <= pair[1]}

\* Sections with the same details and drawn summary counts.
CountSections ==
  {MkSection(DetailPath,
             Summary(l[1], l[2], <<LineDetail(1, 3)>>),
             Summary(br[1], br[2], <<BranchDetail(1, "0", 1)>>),
             Summary(fn[1], fn[2], <<FunctionDetail(<<"m">>, 1, 0)>>)) :
     l \in CountPairs, br \in CountPairs, fn \in CountPairs}

\* The state after refresh 1 found the files of found and started its run.
AfterFilesFound(folders, content, found) ==
  /\ workspaceFolders = folders
  /\ fileContent = content
  /\ cancelled = {0}
  /\ currentRefreshCts = 1
  /\ refreshPc = [r \in Refreshes |-> IF r = 1 THEN "done" ELSE "idle"]
  /\ items = found
  /\ batchState = [b \in Batches |->
                     IF b = 1 /\ found # {} THEN "running"
                     ELSE IF b = 1 THEN "ended" ELSE "none"]
  /\ task = [b \in Batches |-> [f \in Files |->
               IF b = 1 /\ f \in found THEN "read" ELSE "none"]]
  /\ coverage = [b \in Batches |-> <<>>]
  /\ testRunData = [fc \in {} |-> <<>>]
  /\ runProfile = [b \in Batches |-> 0]
  /\ createdInPass = [fc \in {} |-> 0]
  /\ coverageProfile = 1
  /\ disposed = {}
  /\ demangle = [p \in Profiles |-> Undefined]
  /\ loads = [p \in Profiles |-> <<>>]
  /\ call = [c \in Calls |-> IdleCall]
  /\ searched = [r \in Refreshes |-> IF r = 1 THEN DefaultConfiguration ELSE <<>>]
  /\ configuration = DefaultConfiguration
  /\ watchers = DefaultConfiguration
  /\ active = TRUE

InitSummaries ==
  \E section \in CountSections :
    AfterFilesFound(DefaultFolders,
                    (1 :> <<section, SectionA>>) @@ (2 :> <<SectionC>>), Files)

NextSummaries ==
  \/ \E b \in Batches, f \in Files : ReadDone(b, f)
  \/ \E b \in Batches, f \in Files : ParseDone(b, f)

SpecSummaries == InitSummaries /\ [][NextSummaries]_vars

(***************************************************************************)
(* Detail requests on one section whose line, branch and function details  *)
(* are drawn, and requests with a FileCoverage the extension never made.   *)
(***************************************************************************)
LineDetails == {LineDetail(1, 3), LineDetail(2, 0)}

LineBranchDetails ==
  {BranchDetail(line, id, 1) : line \in {1, 2}, id \in {"0", "constructor"}}

LineFunctions ==
  { <<>>, <<FunctionDetail(<<"m">>, 2, 1)>>, <<FunctionDetail(<<"_", "Z", "f">>, 1, 1)>> }

LineSections ==
  {MkSection(DetailPath, Summary(Len(ls), Len(ls), ls),
             Summary(Len(brs), Len(brs), brs), Summary(Len(fns), Len(fns), fns)) :
     ls \in SeqsUpTo(LineDetails, MaxLines),
     brs \in SeqsUpTo(LineBranchDetails, MaxLineBranches),
     fns \in LineFunctions}

\* A FileCoverage that no run of the extension made: the side table has no
\* entry for it.
ForeignCoverage ==
  [id |-> <<0, 0, 0>>,
   uri |-> UriFile(DetailPath),
   statementCoverage |-> [covered |-> 0, total |-> 0],
   branchCoverage |-> [covered |-> 0, total |-> 0],
   declarationCoverage |-> [covered |-> 0, total |-> 0]]

InitLines ==
  \E section \in LineSections :
    AfterCoverageRun(DefaultFolders, (1 :> <<section>>) @@ (2 :> <<>>))

NextLines ==
  \/ \E c \in Calls, req \in DetailRequests : LoadDetailedCoverage(c, req[1], req[2])
  \/ \E c \in Calls : LoadDetailedCoverage(c, coverageProfile, ForeignCoverage)
  \/ \E c \in Calls : Resume(c)
  \/ \E p \in Profiles, k \in 1..MaxLoads, state \in {"resolved", "rejected"} :
       LoadSettles(p, k, state)

SpecLines == InitLines /\ [][NextLines]_vars

(***************************************************************************)
(* Configuration changes.  The state is the one in activate before the     *)
(* first call of refreshConfiguration (line 251): the configuration is the *)
(* empty list of line 23 and there is no watcher.                          *)
(***************************************************************************)
InitConfiguration ==
  /\ workspaceFolders = DefaultFolders
  /\ fileContent = DefaultContent
  /\ cancelled = {}
  /\ currentRefreshCts = 0
  /\ refreshPc = [r \in Refreshes |-> "idle"]
  /\ items = {}
  /\ batchState = [b \in Batches |-> "none"]
  /\ task = [b \in Batches |-> [f \in Files |-> "none"]]
  /\ coverage = [b \in Batches |-> <<>>]
  /\ testRunData = [fc \in {} |-> <<>>]
  /\ runProfile = [b \in Batches |-> 0]
  /\ createdInPass = [fc \in {} |-> 0]
  /\ coverageProfile = 0
  /\ disposed = {}
  /\ demangle = [p \in Profiles |-> Undefined]
  /\ loads = [p \in Profiles |-> <<>>]
  /\ call = [c \in Calls |-> IdleCall]
  /\ searched = [r \in Refreshes |-> <<>>]
  /\ configuration = <<>>
  /\ watchers = <<>>
  /\ active = TRUE

NextConfiguration ==
  \/ \E setting \in Settings, r \in Refreshes : RefreshConfiguration(setting, r)
  \/ \E k \in 1..(2 * MaxRefresh), r \in Refreshes : WatcherFires(k, r)
  \/ \E r \in Refreshes, found \in SUBSET Files : FilesFound(r, found)
  \/ \E b \in Batches, f \in Files : ReadDone(b, f)
  \/ \E b \in Batches, f \in Files : ParseDone(b, f)
  \/ Deactivate

SpecConfiguration == InitConfiguration /\ [][NextConfiguration]_vars

(***************************************************************************)
(* Properties.                                                             *)
(***************************************************************************)
\* The section the parser returned for a FileCoverage (its file, its index).
SectionOf(fc) == fileContent[fc.id[2]][fc.id[3]]

\* The function names of a section, and those that are not empty.
NamesOf(section) ==
  [i \in 1..Len(section.functions.details) |-> section.functions.details[i].name]

Kept(section) == SelectSeq(section.functions.details, LAMBDA fn : fn.name # <<>>)

\* One to three underscores and then Z, at the start of the name.
HasMangledPrefix(name) ==
  /\ Len(name) >= 2
  /\ name[1] = "_"
  /\ \/ name[2] = "Z"
     \/ /\ Len(name) >= 3
        /\ name[2] = "_"
        /\ \/ name[3] = "Z"
           \/ Len(name) >= 4 /\ name[3] = "_" /\ name[4] = "Z"

\* The declaration records of a frame: what follows the line records.
Declarations(frame) ==
  SubSeq(frame.details, Len(frame.section.lines.details) + 1, Len(frame.details))

\* C1: within one profile loadDemangle is invoked at most once, however the
\* calls that need the demangler interleave, and all of them demangle with
\* the function of that one load.
C1_LoadAtMostOnce ==
  \A p \in Profiles :
    /\ Len(loads[p]) <= 1
    /\ Cardinality(UNION {call[c].used : c \in {d \in Calls : call[d].profile = p}}) <= 1
    /\ \A c \in Calls : call[c].profile = p /\ call[c].passed # <<>> => call[c].used = {1}

\* Two calls waited for the same pending load, and both demangled a name
\* and returned.
C1_Witness ==
  \E c, d \in Calls :
    /\ c # d
    /\ call[c].pc = "returned" /\ call[d].pc = "returned"
    /\ call[c].joined = "pending" /\ call[d].joined = "pending"
    /\ call[c].passed # <<>> /\ call[d].passed # <<>>

\* C2: a failed demangler load is not kept in the cache: once the failure
\* has reached every caller that waited for the load, demangle no longer
\* holds the rejected promise, so the next call loads again.
C2_FailedLoadNotCached ==
  \A p \in Profiles :
    (demangle[p].kind = "promise" /\ loads[p][demangle[p].load] = "rejected")
      => \E c \in Calls : /\ call[c].pc = "await"
                          /\ call[c].profile = p
                          /\ call[c].awaiting = demangle[p].load

\* C9: the demangler is called once on every name that starts with one to
\* three underscores and Z, in the section's order, and on no other name; a
\* section without such a name never loads the demangler; in the records
\* returned a matching name is the demangler's result and any other name
\* is verbatim.
C9_DemanglesMangledNamesOnly ==
  \A c \in Calls :
    call[c].pc # "idle" =>
      LET section == SectionOf(call[c].fc)
          mangled == SelectSeq(NamesOf(section), HasMangledPrefix)
          kept == Kept(section)
      IN  /\ IsPrefix(call[c].passed, mangled)
          /\ mangled = <<>> =>
               /\ call[c].loaded = 0 /\ call[c].joined = "none"
               /\ call[c].pc = "returned"
          /\ call[c].pc = "returned" =>
               /\ call[c].passed = mangled
               /\ Len(Declarations(call[c])) = Len(kept)
               /\ \A i \in 1..Len(kept) :
                    Declarations(call[c])[i].name =
                      IF HasMangledPrefix(kept[i].name)
                      THEN DemangledName(kept[i].name) ELSE kept[i].name

\* A call returned records with a demangled name and a verbatim name.
C9_Witness ==
  \E c \in Calls :
    /\ call[c].pc = "returned"
    /\ call[c].passed # <<>>
    /\ \E i \in 1..Len(Declarations(call[c])) :
         Declarations(call[c])[i].name \in FnNames

\* C10: the declaration records a call returns are the function details
\* with a non-empty name, one record each and in the section's order, also
\* for a call that waited for the demangler load while other calls ran.
C10_DeclarationsAreNamedFunctions ==
  \A c \in Calls :
    call[c].pc = "returned" =>
      LET kept == Kept(SectionOf(call[c].fc))
          decls == Declarations(call[c])
      IN  /\ Len(decls) = Len(kept)
          /\ \A i \in 1..Len(kept) :
               /\ decls[i].kind = "declaration"
               /\ decls[i].name \in {kept[i].name, DemangledName(kept[i].name)}
               /\ decls[i].executed = kept[i].hit
               /\ decls[i].location = Position(kept[i].line)

\* A call made a record, started the load and waited, another call joined
\* the pending load in between, and the first call returned two records
\* for a section that also holds an empty name or two named functions.
C10_Witness ==
  \E c, d \in Calls :
    /\ c # d
    /\ call[c].pc = "returned"
    /\ call[c].loaded = 1 /\ call[c].joined = "pending"
    /\ call[d].loaded = 0 /\ call[d].joined = "pending"
    /\ Len(Declarations(call[c])) = 2
    /\ ~HasMangledPrefix(Declarations(call[c])[1].name)
    /\ Declarations(call[c])[1].name \in FnNames
    /\ Len(call[c].passed) = 1

\* The FileCoverage objects of file f published to run b, in order.
PublishedOf(b, f) == SelectSeq(coverage[b], LAMBDA fc : fc.id[2] = f)

\* A per-file task of run b is still reading or parsing.
InProgress(b) == \E f \in Files : task[b][f] \in {"read", "parse"}

\* C3: when the read or parse of one file of a batch fails and another file
\* of the batch is parsed, the sections of the parsed file are published,
\* the failed file adds no coverage, and collectRunData does not raise the
\* failure to its caller.
C3_FailedFileIsIsolated ==
  \A b \in Batches :
    (\E f, g \in Files : task[b][f] = "failed" /\ task[b][g] = "done") =>
      /\ \A f \in Files : task[b][f] = "failed" => PublishedOf(b, f) = <<>>
      /\ \A g \in Files : task[b][g] = "done" =>
           PublishedOf(b, g) = FileCoverages(b, g, fileContent[g])
      /\ batchState[b] # "rejected"

\* The sections of a file are published together or not at all, and a
\* finished task does not change.
C4_AllOrNone ==
  \A b \in Batches, f \in Files :
    /\ task[b][f] = "done" => PublishedOf(b, f) = FileCoverages(b, f, fileContent[f])
    /\ task[b][f] # "done" => PublishedOf(b, f) = <<>>

\* A task that reads or parses under a cancelled token never gets done, a
\* task that ended stays as it ended, and nothing published is retracted.
C4_Step ==
  /\ \A b \in Batches, f \in Files :
       /\ (task[b][f] \in {"read", "parse"} /\ IsCancellationRequested(TokenOf(b)))
            => task'[b][f] # "done"
       /\ task[b][f] \in {"done", "cancelled", "failed"} => task'[b][f] = task[b][f]
  /\ \A b \in Batches : IsPrefix(coverage[b], coverage'[b])
  /\ cancelled \subseteq cancelled'

\* C4: once the token of a run is cancelled, a file whose read or parse has
\* not completed publishes none of its sections; every file has all of its
\* sections published or none; and what other files published stays.
C4_CancelledFilePublishesNothing == []C4_AllOrNone /\ [][C4_Step]_vars

\* A run was cancelled while one file was parsing and after another file
\* had published both of its sections.
C4_Witness ==
  \E b \in Batches, f, g \in Files :
    /\ IsCancellationRequested(TokenOf(b))
    /\ task[b][f] = "cancelled"
    /\ task[b][g] = "done"
    /\ Len(PublishedOf(b, g)) = 2

\* C5 as stated: at most one batch run in progress has an uncancelled
\* token, whether refreshTests or the Coverage profile started it.
C5_OneUncancelledBatch ==
  Cardinality({b \in Batches : InProgress(b) /\ ~IsCancellationRequested(TokenOf(b))}) <= 1

\* C5 as amended: every token refreshTests created is cancelled except the
\* one of the latest refresh, so at most one batch run started by
\* refreshTests is in progress with an uncancelled token.
C5_OneUncancelledRefreshBatch ==
  /\ \A r \in Refreshes :
       refreshPc[r] # "idle" /\ r # currentRefreshCts => IsCancellationRequested(r)
  /\ Cardinality({b \in Refreshes :
                    InProgress(b) /\ ~IsCancellationRequested(TokenOf(b))}) <= 1

\* Two batch runs started by refreshTests are in progress, the older of
\* them cancelled.
C5_Witness ==
  /\ InProgress(1) /\ InProgress(2)
  /\ IsCancellationRequested(TokenOf(1))
  /\ ~IsCancellationRequested(TokenOf(2))

RawOn(section, line) ==
  SelectSeq(section.branches.details, LAMBDA d : d.line = line)

IdsOn(section, line) == {d.branch : d \in Range(RawOn(section, line))}

RECURSIVE SumHits(_)
SumHits(details) ==
  IF details = <<>> THEN 0 ELSE Head(details).hit + SumHits(Tail(details))

\* A line record holds one branch record per identifier in ids, with the
\* hits of the identifier on that line summed.
GroupsBranches(record, section, ids) ==
  LET line == record.location.line + 1
  IN  /\ Len(record.branches) = Cardinality(ids)
      /\ \A id \in ids :
           \E i \in 1..Len(record.branches) :
             /\ record.branches[i].label = id
             /\ record.branches[i].executed =
                  SumHits(SelectSeq(RawOn(section, line), LAMBDA d : d.branch = id))
      /\ \A i \in 1..Len(record.branches) : record.branches[i].executed >= 0

\* C7: every line record holds one branch record per distinct branch
\* identifier on its line, with the hits of that identifier summed, and no
\* executed count is negative.
C7_OneBranchPerIdentifier ==
  \A c \in Calls :
    call[c].pc = "returned" =>
      LET section == SectionOf(call[c].fc)
      IN  \A i \in 1..Len(section.lines.details) :
            GroupsBranches(call[c].details[i], section,
                           IdsOn(section, section.lines.details[i].line))

\* The same for the identifiers that are no property of Object.prototype.
BranchesOfOwnKeysGrouped ==
  \A c \in Calls :
    call[c].pc = "returned" =>
      LET section == SectionOf(call[c].fc)
      IN  \A i \in 1..Len(section.lines.details) :
            GroupsBranches(call[c].details[i], section,
                           IdsOn(section, section.lines.details[i].line) \ ProtoKeys)

RECURSIVE SegmentResolve(_, _)
\* The first folder that is a prefix of the path on a segment boundary,
\* joined with the rest of the path after the separator; the raw path when
\* there is none.
SegmentResolve(folders, path) ==
  IF folders = <<>> THEN UriFile(path)
  ELSE IF StartsWithSegment(path, FsPath(Head(folders)))
       THEN UriJoinPath(Head(folders), Substring(path, Len(FsPath(Head(folders))) + 1))
       ELSE SegmentResolve(Tail(folders), path)

\* C8: the uri of a FileCoverage is the first workspace folder that is a
\* prefix of the section path on a full segment, joined with the rest of
\* the path, and the raw section path when no folder matches so.
C8_SegmentBoundaryMatch ==
  \A b \in Batches : \A i \in 1..Len(coverage[b]) :
    coverage[b][i].uri = SegmentResolve(workspaceFolders, SectionOf(coverage[b][i]).path)

\* The folders that match on a segment boundary are resolved as stated.
ResolvesSegmentMatches ==
  \A b \in Batches : \A i \in 1..Len(coverage[b]) :
    LET path == SectionOf(coverage[b][i]).path
    IN  (\A k \in 1..Len(workspaceFolders) :
           StartsWith(path, FsPath(workspaceFolders[k]))
             => StartsWithSegment(path, FsPath(workspaceFolders[k])))
        => coverage[b][i].uri = SegmentResolve(workspaceFolders, path)

\* The hit/instrumented values of a summary field of a section, as a count.
CountOf(field) == [covered |-> field.hit, total |-> field.instrumented]

\* C11: for every section of a file processed without failure or
\* cancellation, exactly one summary is published and recorded in the side
\* table with that section, and its statement, branch and declaration
\* counts are the hit/instrumented values of the section's lines, branches
\* and functions, whatever the details hold.
C11_SummariesCopyCounts ==
  \A b \in Batches, f \in Files :
    task[b][f] = "done" =>
      \A i \in 1..Len(fileContent[f]) :
        LET section == fileContent[f][i]
            made == {k \in 1..Len(coverage[b]) :
                       coverage[b][k].id[2] = f /\ coverage[b][k].id[3] = i}
        IN  /\ Cardinality(made) = 1
            /\ \A k \in made :
                 /\ coverage[b][k].statementCoverage = CountOf(section.lines)
                 /\ coverage[b][k].branchCoverage = CountOf(section.branches)
                 /\ coverage[b][k].declarationCoverage = CountOf(section.functions)
                 /\ coverage[b][k] \in DOMAIN testRunData
                 /\ testRunData[coverage[b][k]] = section

\* Both files of a run are done, and a summary published for the first
\* holds counts that differ from the numbers of its detail entries.
C11_Witness ==
  \E b \in Batches :
    /\ \A f \in Files : task[b][f] = "done"
    /\ \E k \in 1..Len(coverage[b]) :
         /\ coverage[b][k].statementCoverage = [covered |-> 0, total |-> MaxCount]
         /\ coverage[b][k].branchCoverage = [covered |-> 0, total |-> 0]
         /\ coverage[b][k].declarationCoverage = [covered |-> 1, total |-> 1]

\* The branch records of a line record belong to its line.
BranchesOfLine(record, section, line) ==
  /\ RawOn(section, line) = <<>> => record.branches = <<>>
  /\ \A j \in 1..Len(record.branches) :
       /\ record.branches[j].location = [line |-> line - 1, character |-> 0]
       /\ record.branches[j].label \in IdsOn(section, line)
  /\ GroupsBranches(record, section, IdsOn(section, line) \ ProtoKeys)

C15_ReturnedEmpty ==
  \A c \in Calls :
    (call[c].pc # "idle" /\ call[c].fc \notin DOMAIN testRunData) =>
      /\ call[c].pc = "returned"
      /\ call[c].details = <<>>
      /\ call[c].error = "none"
      /\ call[c].loaded = 0 /\ call[c].joined = "none" /\ call[c].passed = <<>>

\* The step of such a call changes nothing but the frame of the call.
C15_Step ==
  \A c \in Calls :
    (call[c].pc = "idle" /\ call'[c].pc # "idle"
       /\ call'[c].fc \notin DOMAIN testRunData) =>
      /\ UNCHANGED <<hostVars, extensionVars, cancelled, refreshVars, batchVars, profileVars>>
      /\ UNCHANGED <<demangle, loads>>
      /\ \A d \in Calls \ {c} : call'[d] = call[d]

\* C15: loadDetailedCoverage called with a summary that has no entry in the
\* side table returns the empty list: it does not fail, does not invoke
\* loadDemangle and changes no state.
C15_MissingSectionReturnsEmpty == []C15_ReturnedEmpty /\ [][C15_Step]_vars

\* A call without an entry in the side table returned while another call
\* waited for the demangler load.
C15_Witness ==
  \E c, d \in Calls :
    /\ call[c].pc = "returned" /\ call[c].fc \notin DOMAIN testRunData
    /\ call[d].pc = "await" /\ d < c

\* The demangler threw in a call: the call passed it a name it throws on.
Threw(frame) == \E i \in 1..Len(frame.passed) : frame.passed[i] \in DemanglerThrows

\* A call in which the demangler threw has failed and returns no record,
\* the cache still holds the demangler that call used, and a call fails
\* only by a throw of its own or by the rejected load it waited for.
C13_FailsAlone ==
  \A c \in Calls :
    /\ Threw(call[c]) =>
         /\ call[c].pc = "failed" /\ call[c].error = "demangle"
         /\ demangle[call[c].profile].kind = "function"
         /\ call[c].used = {demangle[call[c].profile].load}
    /\ call[c].pc = "failed" =>
         \/ Threw(call[c])
         \/ /\ call[c].error = "load"
            /\ loads[call[c].profile][call[c].awaiting] = "rejected"

\* The step in which the demangler throws writes nothing but the frame of
\* the call and, after an await, the function the await yielded.
C13_Step ==
  \A c \in Calls :
    (~Threw(call[c]) /\ Threw(call'[c])) =>
      /\ UNCHANGED <<hostVars, extensionVars, cancelled, refreshVars, batchVars, profileVars, loads>>
      /\ \A d \in Calls \ {c} : call'[d] = call[d]
      /\ \A p \in Profiles :
           \/ demangle'[p] = demangle[p]
           \/ /\ p = call[c].profile /\ call[c].pc = "await"
              /\ demangle[p] = [kind |-> "promise", load |-> call[c].awaiting]
              /\ demangle'[p] = [kind |-> "function", load |-> call[c].awaiting]

\* C13: when the demangler throws for a name, the call fails as a whole and
\* returns no record, the side table and the cached demangler stay as they
\* are, and no other call fails for it.
C13_ThrowFailsOnlyItsCall == []C13_FailsAlone /\ [][C13_Step]_vars

\* The demangler threw in one call, and a call started afterwards found
\* the demangler cached, demangled a name and returned its records.
C13_Witness ==
  \E c, d \in Calls :
    /\ Threw(call[c]) /\ call[c].pc = "failed"
    /\ call[d].pc = "returned"
    /\ call[d].joined = "none" /\ call[d].passed # <<>>
    /\ Declarations(call[d]) # <<>>

\* C14: in the coverage of one run, the summaries of one file stand in the
\* order of the parser's sections and next to each other: between two
\* summaries of a file there is no summary of another file.
C14_FileBlocksInParserOrder ==
  \A b \in Batches : \A k, l \in 1..Len(coverage[b]) :
    (k < l /\ coverage[b][k].id[2] = coverage[b][l].id[2]) =>
      /\ coverage[b][k].id[3] < coverage[b][l].id[3]
      /\ \A j \in k..l : coverage[b][j].id[2] = coverage[b][k].id[2]

\* A run holds the summary of the second file before the two summaries of
\* the first file.
C14_Witness ==
  \E b \in Batches :
    /\ Len(coverage[b]) = 3
    /\ coverage[b][1].id[2] = 2
    /\ coverage[b][2].id[2] = 1 /\ coverage[b][3].id[2] = 1

\* No coverage is added to a run that has been ended, and an ended run
\* stays ended.
C16_Step ==
  \A b \in Batches :
    batchState[b] = "ended" => (coverage'[b] = coverage[b] /\ batchState'[b] = "ended")

\* C16: every run collectRunData created is ended in the end, whether its
\* per-file tasks succeed, are cancelled or fail, and no coverage is added
\* to a run after it has been ended.
C16_EveryRunIsEnded ==
  /\ \A b \in Batches : (batchState[b] # "none") ~> (batchState[b] = "ended")
  /\ [][C16_Step]_vars

\* The report files refresh r found: the items it passed to its run.
FoundBy(r) == {f \in Files : task[r][f] # "none"}

\* C17: once the refresh that started last has finished, the items of the
\* controller are the report files it found, also when an earlier refresh
\* that it superseded finishes after it.
C17_LatestRefreshOwnsItems ==
  \A r \in Refreshes :
    (r = currentRefreshCts /\ \A q \in Refreshes : q <= r => refreshPc[q] = "done")
      => items = FoundBy(r)

\* C18: the watchers whose listener can call refreshTests are the ones made
\* for the globs of the configuration in use, one per glob: none is left
\* from a configuration that was replaced.
C18_WatchersOfCurrentConfiguration ==
  active => watchers = configuration

\* While the extension is active, the watchers made last are those of the
\* configuration in use.
WatchersCoverConfiguration ==
  active =>
    /\ Len(watchers) >= Len(configuration)
    /\ SubSeq(watchers, Len(watchers) - Len(configuration) + 1, Len(watchers))
         = configuration

\* The profiles created and not disposed.
LiveProfiles == {p \in Profiles : refreshPc[p] = "done"} \ disposed

\* C19: at most one Coverage profile that has not been disposed exists, and
\* none once the extension is deactivated.
C19_AtMostOneLiveProfile ==
  /\ Cardinality(LiveProfiles) <= 1
  /\ ~active => LiveProfiles = {}

\* While the extension is active, the profiles not disposed are the current
\* one alone.
OneLiveProfileWhileActive ==
  active => LiveProfiles = {coverageProfile} \ {0}

====
